---- MODULE Spec2Model ----
(***************************************************************************)
(* Screen-Gamma-Tuner: the gamma-ramp computation of screengamma.py and    *)
(* the restore-on-exit lifecycle of ScreenGammaGUI (gui.py).               *)
(*                                                                         *)
(* Numbers: gamma, brightness and contrast are held in tenths (the slider  *)
(* resolution is 0.1), so 1.0 is 10 and 2.2 is 22.                         *)
(*                                                                         *)
(* Threads: "main" runs __init__, the Tk main loop, the signal handlers    *)
(* and the exit hooks; "tray" runs the pystray menu callbacks.             *)
(*                                                                         *)
(* Tk main loop: root.after(0, f) creates a timer.  One turn of the loop   *)
(* runs every timer that was due when the turn began (a timer pass); the   *)
(* quit flag set by root.quit() and an exception raised in a callback are  *)
(* looked at only after the pass is over.  Timers created during a pass    *)
(* wait for a later pass.                                                  *)
(***************************************************************************)
EXTENDS Integers, Sequences, FiniteSets, TLC

VARIABLES
    pc,              \* position of the main thread
    exc,             \* exception in flight in the main thread
    original_ramp,   \* self.original_ramp (and the closure of backup_and_restore)
    hw,              \* the ramp the display currently has
    gamma_var, brightness_var, contrast_var,   \* the Tk DoubleVars
    config,          \* self.config
    file,            \* content of config.json
    status,          \* text of the status label ("absent": no label yet)
    icon,            \* the tray icon: "absent", "running", "stopped"
    visible,         \* the window is shown (not withdrawn)
    queue,           \* pending after(0) timers, oldest first
    pass,            \* timers of the current pass still to run
    quitFlag,        \* root.quit() was called
    applying,        \* handler inside set_gamma_ramp_all_screens, or "none"
    pendingTable,    \* the table that handler has computed
    applyRet,        \* last outcome of set_gamma_ramp_all_screens
    notice,          \* last messagebox shown
    \* ---- history of the driver calls ----
    captured,        \* the ramp get_gamma_ramp returned in __init__
    readFailed,      \* GetDeviceGammaRamp failed in __init__
    lastWrite,       \* argument of the last driver write call
    lastWriteOk,     \* that call succeeded
    tableWritten,    \* some computed table was passed to the driver
    restoreCalls,    \* restore invocations so far
    restoreWrites,   \* driver writes of the original ramp so far
    tableAfterRestore, \* a computed table was passed to the driver after a restore
    driverCallers,   \* threads that have called the driver
    faults,          \* driver calls that failed or raised so far
    errPropagated,   \* a restore let a driver error out to its caller
    applyFailed,     \* the driver write of some apply failed
    appliedAfterFail,\* a later apply reached the driver after such a failure
    nOps,            \* user and environment events so far
    \* ---- the table computation ----
    params,          \* arguments of set_gamma_ramp_all_screens: <<gamma, brightness, contrast>>
    idx,             \* loop variable i
    val_16bit,       \* int(val * 65535) of the last iteration
    red, green, blue \* the three channels of the ramp being filled

lifeVars == <<pc, exc, original_ramp, hw, gamma_var, brightness_var, contrast_var,
              config, file, status, icon, visible, queue, pass, quitFlag, applying,
              pendingTable, applyRet, notice, captured, readFailed, lastWrite,
              lastWriteOk, tableWritten, restoreCalls, restoreWrites,
              tableAfterRestore, driverCallers, faults, errPropagated,
              applyFailed, appliedAfterFail, nOps>>

rampVars == <<params, idx, val_16bit, red, green, blue>>

vars == <<lifeVars, rampVars>>

----------------------------------------------------------------------------
(* Bounds of the model *)

MaxOps == 2        \* user events in one run
MaxUiOps == 3      \* user events in one run of the window on its own
MaxFaults == 1     \* driver calls that fail or raise in one run

----------------------------------------------------------------------------
(* Ramps.  In the lifecycle a ramp is named by where it came from: the     *)
(* ramp the display had at startup, the zero-filled GammaRamp() that       *)
(* get_gamma_ramp returns when the driver read fails, or the table         *)
(* computed from a parameter triple.                                       *)

NoRamp == [kind |-> "none", gamma |-> 0, brightness |-> 0, contrast |-> 0]

HwRamp == [kind |-> "hw", gamma |-> 0, brightness |-> 0, contrast |-> 0]

ZeroRamp == [kind |-> "zero", gamma |-> 0, brightness |-> 0, contrast |-> 0]

Table(g, b, c) == [kind |-> "table", gamma |-> g, brightness |-> b, contrast |-> c]

Params(g, b, c) == [gamma |-> g, brightness |-> b, contrast |-> c]

DefaultConfig == Params(10, 0, 10)

Min(a, b) == IF a < b THEN a ELSE b

Max(a, b) == IF a > b THEN a ELSE b

----------------------------------------------------------------------------
(* The display driver (screengamma.py).  A driver call is one C call made  *)
(* through ctypes: it returns success, returns failure, or raises.         *)

ReadOutcomes == {"ok", "fail", "raise"}

WriteOutcomes == {"ok", "fail", "raise"}

(* get_gamma_ramp: the return value of GetDeviceGammaRamp is not looked    *)
(* at; when the call fails the fresh, zero-filled GammaRamp() is returned. *)
get_gamma_ramp(outcome) == IF outcome = "ok" THEN hw ELSE ZeroRamp

(* set_gamma_ramp(ramp) called by thread t *)
set_gamma_ramp(ramp, outcome, t) ==
    /\ hw' = IF outcome = "ok" THEN ramp ELSE hw
    /\ lastWrite' = ramp
    /\ lastWriteOk' = (outcome = "ok")
    /\ driverCallers' = driverCallers \cup {t}
    /\ outcome # "ok" => faults < MaxFaults
    /\ faults' = IF outcome = "ok" THEN faults ELSE faults + 1

NoDriverCall == UNCHANGED <<hw, lastWrite, lastWriteOk, driverCallers, faults>>

----------------------------------------------------------------------------
(* Restore *)

(* The ramp _restore_gamma passes to the driver: self.original_ramp *)
RestoreRamp == original_ramp

(* A closure that keeps a fresh, zero-filled GammaRamp() *)
BackupRampFresh == ZeroRamp

(* The ramp the atexit handler of backup_and_restore passes to the driver: *)
(* the original_ramp of its closure, the object __init__ handed over.      *)
BackupRamp == original_ramp

(* A restore that keeps a "restored" flag and writes only the first time *)
restore_gamma_once(outcome, t) ==
    /\ restoreCalls' = restoreCalls + 1
    /\ IF restoreWrites = 0
         THEN /\ set_gamma_ramp(RestoreRamp, outcome, t)
              /\ restoreWrites' = restoreWrites + 1
         ELSE /\ NoDriverCall
              /\ UNCHANGED restoreWrites

(* _restore_gamma: try: set_gamma_ramp(self.original_ramp) except: pass.   *)
(* There is no flag: every invocation calls the driver.                    *)
restore_gamma(outcome, t) ==
    /\ set_gamma_ramp(RestoreRamp, outcome, t)
    /\ restoreCalls' = restoreCalls + 1
    /\ restoreWrites' = restoreWrites + 1

(* restore() of backup_and_restore: set_gamma_ramp(original_ramp), with no *)
(* try/except around it: a raising driver call raises out of restore().    *)
backup_restore(outcome) ==
    /\ set_gamma_ramp(BackupRamp, outcome, "main")
    /\ restoreCalls' = restoreCalls + 1
    /\ restoreWrites' = restoreWrites + 1
    /\ errPropagated' = (errPropagated \/ outcome = "raise")

----------------------------------------------------------------------------
(* The table computation of set_gamma_ramp_all_screens (screengamma.py     *)
(* 34-44).  The floats of the code are fixed-point numbers here: 1.0 is    *)
(* Unit = 65535 * 100, so that brightness * 0.3 (3/100 of a tenth) and     *)
(* i / 255.0 are whole numbers of units; the power is rounded down to a    *)
(* whole number of units.                                                  *)

GAMMA_RAMP_SIZE == 256

Full == 65535

Unit == Full * 100

(* A power whose base is the whole-number quotient i // 255 *)
PowUnitsIntDiv(i, n) == IF n = 0 \/ i = 255 THEN Unit ELSE 0

(* t * (i / 255) in units, t times: Unit * (i / 255) ^ n *)
RECURSIVE PowUnits(_, _)
PowUnits(i, n) == IF n = 0 THEN Unit ELSE (PowUnits(i, n - 1) * i) \div 255

(* The largest r with r * r <= n, for n < 2^16 *)
ISqrt(n) == CHOOSE r \in 0..255 : r * r <= n /\ (r + 1) * (r + 1) > n

(* Binary digits of a square root, one per step: from root = floor(sqrt(m)) *)
(* and rem = m - root^2 to the same for 4 * m.                             *)
RECURSIVE SqrtBits(_, _, _)
SqrtBits(root, rem, k) ==
    IF k = 0 THEN root
    ELSE IF 4 * rem >= 4 * root + 1
           THEN SqrtBits(2 * root + 1, 4 * rem - (4 * root + 1), k - 1)
           ELSE SqrtBits(2 * root, 4 * rem, k - 1)

(* Unit * sqrt(i / 255) = 25700 * sqrt(255 * i), from 15 binary places of  *)
(* the root                                                                *)
SqrtUnits(i) ==
    LET r0 == ISqrt(255 * i)
        s == SqrtBits(r0, 255 * i - r0 * r0, 15)
        k == Unit \div 255
    IN  k * (s \div 32768) + (k * (s % 32768)) \div 32768

(* normalized ** (1.0 / max(gamma, 0.1)), gamma in tenths: the exponent is *)
(* 10 / max(gamma, 1).  The gammas of the model have a whole exponent or   *)
(* the exponent 1/2.                                                       *)
GammaCorrected(i, gamma) ==
    LET g == Max(gamma, 1)
    IN  IF g = 20 THEN SqrtUnits(i) ELSE PowUnits(i, 10 \div g)

(* max(0.0, min(1.0, val)) with 1.0 = one *)
Clamp(val, one) == Max(0, Min(one, val))

(* line 38-39: val = gamma_corrected + brightness * 0.3, clamped *)
Shifted(i, gamma, brightness) ==
    Clamp(GammaCorrected(i, gamma) + brightness * 3 * (Unit \div 100), Unit)

(* A contrast step that scales the distance from 0.5 the other way round *)
ContrastedInverted(val, contrast) == (Unit \div 2 - val) * contrast + 5 * Unit

(* line 41: val = (val - 0.5) * contrast + 0.5, in tenths of a unit *)
Contrasted(val, contrast) == (val - Unit \div 2) * contrast + 5 * Unit

(* A contrast step whose result is not clamped *)
FinalValUnclamped(i, gamma, brightness, contrast) ==
    Contrasted(Shifted(i, gamma, brightness), contrast)

(* line 41-42: the contrast step, clamped; 1.0 is 10 * Unit *)
FinalVal(i, gamma, brightness, contrast) ==
    Clamp(Contrasted(Shifted(i, gamma, brightness), contrast), 10 * Unit)

(* int(x): truncation towards zero of x / 1000 *)
IntOf(x) == IF x >= 0 THEN x \div 1000 ELSE -((-x) \div 1000)

(* line 43: val_16bit = int(val * 65535) *)
Val16(i, gamma, brightness, contrast) ==
    IntOf(FinalVal(i, gamma, brightness, contrast))

(* wintypes.USHORT(v): ctypes keeps the low 16 bits *)
USHORT(v) == v % (Full + 1)

(* The parameter triples the computation is checked on: gamma 0 (below the *)
(* floor 0.1), 0.1, 0.5, 1.0, 2.0; brightness -2.0, -0.3, 0, 1.0; contrast *)
(* -1.0, 0.1, 1.0, 1.5, 5.0.                                               *)
GammaInputs == {0, 1, 5, 10, 20}

BrightnessInputs == {-20, -3, 0, 10}

ContrastInputs == {-10, 1, 10, 15, 50}

(* The ramp get_gamma_ramp() returns to set_gamma_ramp_all_screens before  *)
(* the loop overwrites it: the linear ramp of an untouched display.        *)
LinearRamp == [i \in 0..(GAMMA_RAMP_SIZE - 1) |-> i * 257]

----------------------------------------------------------------------------
(* Groups of variables *)

uiVars == <<gamma_var, brightness_var, contrast_var>>

cfgVars == <<config, file, notice>>

loopVars == <<queue, pass, quitFlag>>

startVars == <<original_ramp, captured, readFailed>>

restoreHist == <<restoreCalls, restoreWrites, errPropagated>>

applyHist == <<tableWritten, tableAfterRestore, applyRet, applyFailed, appliedAfterFail>>

applyVars == <<applying, pendingTable>>

----------------------------------------------------------------------------
(* The values the sliders can be dragged to, and the slider ranges of      *)
(* sliders_config (tenths).                                                *)

GammaFrom == 3
GammaTo == 40
BrightnessFrom == -10
BrightnessTo == 10
ContrastFrom == 1
ContrastTo == 30

SliderNames == {"gamma", "brightness", "contrast"}

SliderFrom(which) ==
    CASE which = "gamma" -> GammaFrom
      [] which = "brightness" -> BrightnessFrom
      [] which = "contrast" -> ContrastFrom

SliderTo(which) ==
    CASE which = "gamma" -> GammaTo
      [] which = "brightness" -> BrightnessTo
      [] which = "contrast" -> ContrastTo

(* The button pressed at each slider in the lifecycle: + or - *)
AdjustPick(which) ==
    CASE which = "gamma" -> 1
      [] which = "brightness" -> -1
      [] which = "contrast" -> 1

SliderPicks(which) ==
    CASE which = "gamma" -> {22}
      [] which = "brightness" -> {-10}
      [] which = "contrast" -> {15}

VarOf(which) ==
    CASE which = "gamma" -> gamma_var
      [] which = "brightness" -> brightness_var
      [] which = "contrast" -> contrast_var

(* A DoubleVar no Scale is linked to: it keeps what was set *)
Unlinked(which, v) == v

(* Scale(from_=from_val, to=to_val, variable=var): the value var holds     *)
(* after var.set(v).  The Scale has a write trace on its variable: Tk      *)
(* brings a value outside from..to back to the nearer end and writes that  *)
(* to the variable before set() returns.                                   *)
Linked(which, v) == Max(SliderFrom(which), Min(SliderTo(which), v))

(* var.set(v) on the DoubleVar named which *)
SetVar(which, v) ==
    /\ gamma_var' = IF which = "gamma" THEN Linked(which, v) ELSE gamma_var
    /\ brightness_var' = IF which = "brightness" THEN Linked(which, v) ELSE brightness_var
    /\ contrast_var' = IF which = "contrast" THEN Linked(which, v) ELSE contrast_var

(* The three var.set of apply_config and _load *)
SetVars(p) ==
    /\ gamma_var' = Linked("gamma", p.gamma)
    /\ brightness_var' = Linked("brightness", p.brightness)
    /\ contrast_var' = Linked("contrast", p.contrast)

(* config.json: missing, not parseable by json.load, JSON that is not a   *)
(* record of the three parameters (the empty object), or the JSON of a     *)
(* parameter record.                                                       *)
MissingFile == [state |-> "missing", gamma |-> 0, brightness |-> 0, contrast |-> 0]

CorruptFile == [state |-> "corrupt", gamma |-> 0, brightness |-> 0, contrast |-> 0]

JsonFile(p) ==
    [state |-> "json", gamma |-> p.gamma, brightness |-> p.brightness,
     contrast |-> p.contrast]

ObjectFile == [state |-> "object", gamma |-> 0, brightness |-> 0, contrast |-> 0]

(* What json.load gives for the empty object: a dict without the keys *)
EmptyObject == [keys |-> {}]

(* The contents config.json can have when the program starts *)
FileContents == {MissingFile, CorruptFile, ObjectFile, JsonFile(Params(22, 0, 10))}

(* The same, and a record with a gamma of 5.0, above the slider range *)
FileContentsUi == FileContents \cup {JsonFile(Params(50, 0, 10))}

----------------------------------------------------------------------------
(* __init__ *)

(* A constructor that registers the hooks but puts off reading the ramp *)
ConstructWithoutCapture(outcome) ==
    /\ pc = "start"
    /\ pc' = "constructed"
    /\ UNCHANGED <<exc, startVars, hw, lastWrite, lastWriteOk, driverCallers, faults, uiVars,
                   cfgVars, status, icon, visible, loopVars, applyVars, applyHist,
                   restoreHist, nOps, rampVars>>

(* gui.py 19-30: read the ramp, keep it as self.original_ramp, register    *)
(* the atexit handlers, the excepthook and the signal handlers.  A read    *)
(* that raises ends the program before anything is registered.             *)
Construct(outcome) ==
    /\ pc = "start"
    /\ driverCallers' = driverCallers \cup {"main"}
    /\ outcome # "ok" => faults < MaxFaults
    /\ faults' = IF outcome = "ok" THEN faults ELSE faults + 1
    /\ IF outcome = "raise"
         THEN /\ pc' = "exited"
              /\ exc' = "Exception"
              /\ UNCHANGED startVars
         ELSE /\ pc' = "constructed"
              /\ original_ramp' = get_gamma_ramp(outcome)
              /\ captured' = get_gamma_ramp(outcome)
              /\ readFailed' = (outcome = "fail")
              /\ UNCHANGED exc
    /\ UNCHANGED <<hw, lastWrite, lastWriteOk, uiVars, cfgVars, status, icon, visible,
                   loopVars, applyVars, applyHist, restoreHist, nOps, rampVars>>

(* load_config: a missing file gives the defaults; a file json.load        *)
(* rejects gives a warning box and the defaults; whatever json.load        *)
(* accepts is returned as it is.                                           *)
load_config ==
    CASE file.state = "json" -> Params(file.gamma, file.brightness, file.contrast)
      [] file.state = "object" -> EmptyObject
      [] OTHER -> DefaultConfig

(* gui.py 32-49: the window, the DoubleVars, load_config, setup_ui (the    *)
(* status label reads "Ready") and apply_config.  self.config['gamma'] of  *)
(* apply_config raises KeyError when the key is not there: the exception   *)
(* leaves __init__ and reaches sys.excepthook.                             *)
LoadConfigStep ==
    /\ pc = "constructed"
    /\ config' = load_config
    /\ notice' = IF file.state = "corrupt" THEN "load_warning" ELSE notice
    /\ status' = "Ready"
    /\ visible' = TRUE
    /\ IF load_config = EmptyObject
         THEN /\ exc' = "Exception"
              /\ pc' = "excepthook"
              /\ UNCHANGED uiVars
         ELSE /\ SetVars(load_config)
              /\ pc' = "init_update"
              /\ UNCHANGED exc
    /\ UNCHANGED <<startVars, hw, lastWrite, lastWriteOk, driverCallers, faults, file,
                   icon, loopVars, applyVars, applyHist, restoreHist, nOps, rampVars>>

----------------------------------------------------------------------------
(* update_gamma and set_gamma_ramp_all_screens, in two steps: the handler  *)
(* named kind has set the DoubleVars; the first step reads them, reads the *)
(* current ramp into a fresh GammaRamp and fills it (screengamma.py        *)
(* 33-44); the second step passes it to the driver (line 45).  A signal    *)
(* can be handled between the two.                                         *)

BeginApply(kind) ==
    /\ applying' = kind
    /\ pendingTable' = Table(gamma_var', brightness_var', contrast_var')
    /\ driverCallers' = driverCallers \cup {"main"}
    /\ UNCHANGED <<hw, lastWrite, lastWriteOk, faults>>

(* What the status label reads when the handler is over *)
StatusAfter(kind, outcome) ==
    CASE kind = "_load" -> "Configuration loaded"
      [] kind = "_reset" -> "Reset to Default!"
      [] OTHER -> IF outcome = "raise" THEN "Update failed" ELSE "Live"

(* An apply that fills self.original_ramp itself *)
OriginalAliased(table) == table

(* self.original_ramp after an apply that filled table: the ramp apply     *)
(* fills is the fresh one get_gamma_ramp() returned (screengamma.py 33),   *)
(* not self.original_ramp.                                                 *)
OriginalAfterApply(table) == original_ramp

(* gui.py 52 *)
InitUpdate ==
    /\ pc = "init_update"
    /\ applying = "none"
    /\ UNCHANGED uiVars
    /\ BeginApply("init")
    /\ UNCHANGED <<pc, exc, startVars, cfgVars, status, icon, visible, loopVars,
                   applyHist, restoreHist, nOps, rampVars>>

(* An update_gamma that lets a failed driver write end the main loop *)
ApplyWriteFatal(outcome) ==
    /\ applying # "none"
    /\ pc \in {"init_update", "mainloop"}
    /\ set_gamma_ramp(pendingTable, outcome, "main")
    /\ tableWritten' = TRUE
    /\ tableAfterRestore' = (tableAfterRestore \/ restoreWrites > 0)
    /\ applyRet' = (IF outcome = "ok" THEN "true" ELSE "raised")
    /\ applyFailed' = (applyFailed \/ outcome = "fail")
    /\ appliedAfterFail' = (appliedAfterFail \/ applyFailed)
    /\ applying' = "none"
    /\ pendingTable' = NoRamp
    /\ exc' = IF outcome = "ok" THEN exc ELSE "Exception"
    /\ pc' = IF outcome = "ok"
               THEN (IF pc = "init_update" THEN "tray" ELSE pc)
               ELSE (IF pc = "init_update" THEN "excepthook" ELSE "except")
    /\ UNCHANGED <<startVars, uiVars, cfgVars, status, icon, visible, loopVars,
                   restoreHist, nOps, rampVars>>

(* screengamma.py 45 and gui.py 275-283: the driver write; its result is   *)
(* returned by set_gamma_ramp_all_screens and not looked at by             *)
(* update_gamma; an exception is caught and shown in the status label.     *)
ApplyWrite(outcome) ==
    /\ applying # "none"
    /\ pc \in {"init_update", "mainloop"}
    /\ set_gamma_ramp(pendingTable, outcome, "main")
    /\ original_ramp' = OriginalAfterApply(pendingTable)
    /\ tableWritten' = TRUE
    /\ tableAfterRestore' = (tableAfterRestore \/ restoreWrites > 0)
    /\ applyRet' = (CASE outcome = "ok" -> "true"
                      [] outcome = "fail" -> "false"
                      [] outcome = "raise" -> "raised")
    /\ applyFailed' = (applyFailed \/ outcome = "fail")
    /\ appliedAfterFail' = (appliedAfterFail \/ applyFailed)
    /\ status' = StatusAfter(applying, outcome)
    /\ applying' = "none"
    /\ pendingTable' = NoRamp
    /\ pc' = IF pc = "init_update" THEN "tray" ELSE pc
    /\ UNCHANGED <<exc, captured, readFailed, uiVars, cfgVars, icon, visible, loopVars,
                   restoreHist, nOps, rampVars>>

(* gui.py 55 and 285-287: setup_tray starts the tray thread, run() enters  *)
(* the main loop.                                                          *)
SetupTrayAndRun ==
    /\ pc = "tray"
    /\ icon' = "running"
    /\ pc' = "mainloop"
    /\ UNCHANGED <<exc, startVars, hw, lastWrite, lastWriteOk, driverCallers, faults, uiVars,
                   cfgVars, status, visible, loopVars, applyVars, applyHist, restoreHist,
                   nOps, rampVars>>

----------------------------------------------------------------------------
(* The main loop between two events: no timer pass and no handler is in    *)
(* progress, and nothing has told the loop to end.                         *)
Idle ==
    /\ pc = "mainloop"
    /\ pass = 0
    /\ applying = "none"
    /\ ~quitFlag
    /\ exc = "none"

(* A widget of the window can be used *)
UserCan == Idle /\ visible

(* Scale(..., variable=var, command=self.update_gamma): a drag sets the    *)
(* variable and calls update_gamma.                                        *)
SliderMove(which, v) ==
    /\ UserCan
    /\ SetVar(which, v)
    /\ BeginApply("slider")
    /\ nOps' = nOps + 1
    /\ UNCHANGED <<pc, exc, startVars, cfgVars, status, icon, visible, loopVars,
                   applyHist, restoreHist, rampVars>>

(* adjust_value(var, delta, min_val, max_val) of the + and - buttons *)
adjust_value(which, delta) ==
    /\ UserCan
    /\ SetVar(which, Max(SliderFrom(which), Min(SliderTo(which), VarOf(which) + delta)))
    /\ BeginApply("adjust")
    /\ nOps' = nOps + 1
    /\ UNCHANGED <<pc, exc, startVars, cfgVars, status, icon, visible, loopVars,
                   applyHist, restoreHist, rampVars>>

(* root.after(0, f) *)
after0(f) == queue' = Append(queue, f)

(* reset(): schedules _reset *)
reset ==
    /\ after0("_reset")
    /\ UNCHANGED <<pass, quitFlag>>

(* load_from_config(): schedules _load *)
load_from_config ==
    /\ after0("_load")
    /\ UNCHANGED <<pass, quitFlag>>

(* The Reset button: command=self.reset *)
ResetButton ==
    /\ UserCan
    /\ reset
    /\ nOps' = nOps + 1
    /\ UNCHANGED <<pc, exc, startVars, hw, lastWrite, lastWriteOk, driverCallers, faults, uiVars,
                   cfgVars, status, icon, visible, applyVars, applyHist, restoreHist,
                   rampVars>>

(* The Load button: command=self.load_from_config *)
LoadButton ==
    /\ UserCan
    /\ load_from_config
    /\ nOps' = nOps + 1
    /\ UNCHANGED <<pc, exc, startVars, hw, lastWrite, lastWriteOk, driverCallers, faults, uiVars,
                   cfgVars, status, icon, visible, applyVars, applyHist, restoreHist,
                   rampVars>>

(* save_config: the file is written; open() fails and the file is as it   *)
(* was; or open() has emptied the file and the write fails.                *)
SaveOutcomes == {"ok", "fail", "torn"}

(* A save_config that swallows the error: except Exception: pass *)
save_to_config_silent(outcome) ==
    /\ config' = Params(gamma_var, brightness_var, contrast_var)
    /\ file' = (CASE outcome = "ok" -> JsonFile(config')
                  [] outcome = "fail" -> file
                  [] outcome = "torn" -> CorruptFile)
    /\ notice' = notice
    /\ status' = "Configuration saved"

(* save_to_config: self.config takes the current values, save_config       *)
(* writes the file (an error box when that fails), the label reads         *)
(* "Configuration saved".                                                  *)
save_to_config(outcome) ==
    /\ config' = Params(gamma_var, brightness_var, contrast_var)
    /\ file' = (CASE outcome = "ok" -> JsonFile(config')
                  [] outcome = "fail" -> file
                  [] outcome = "torn" -> CorruptFile)
    /\ notice' = IF outcome = "ok" THEN notice ELSE "save_error"
    /\ status' = "Configuration saved"

(* The Save button: command=self.save_to_config *)
SaveButton(outcome) ==
    /\ UserCan
    /\ save_to_config(outcome)
    /\ nOps' = nOps + 1
    /\ UNCHANGED <<pc, exc, startVars, hw, lastWrite, lastWriteOk, driverCallers, faults, uiVars,
                   icon, visible, loopVars, applyVars, applyHist, restoreHist, rampVars>>

(* A close handler that ends the main loop, as the default handler does *)
on_closing_quits ==
    /\ UserCan
    /\ visible' = FALSE
    /\ quitFlag' = TRUE
    /\ nOps' = nOps + 1
    /\ UNCHANGED <<pc, exc, startVars, hw, lastWrite, lastWriteOk, driverCallers, faults, uiVars,
                   cfgVars, status, icon, queue, pass, applyVars, applyHist, restoreHist,
                   rampVars>>

(* on_closing (WM_DELETE_WINDOW): the window is withdrawn *)
on_closing ==
    /\ UserCan
    /\ visible' = FALSE
    /\ nOps' = nOps + 1
    /\ UNCHANGED <<pc, exc, startVars, hw, lastWrite, lastWriteOk, driverCallers, faults, uiVars,
                   cfgVars, status, icon, loopVars, applyVars, applyHist, restoreHist,
                   rampVars>>

----------------------------------------------------------------------------
(* The tray thread *)

TrayItems == {"load_from_config", "reset", "show_window", "quit_app"}

(* A wrapper that calls the menu function in the tray thread itself *)
tray_callback_direct(item) ==
    /\ pc = "mainloop"
    /\ icon = "running"
    /\ item = "quit_app"
    /\ save_to_config("ok")
    /\ \E w \in WriteOutcomes : restore_gamma(w, "tray")
    /\ icon' = "stopped"
    /\ quitFlag' = TRUE
    /\ nOps' = nOps + 1
    /\ UNCHANGED <<pc, exc, startVars, uiVars, visible, queue, pass, applyVars,
                   applyHist, errPropagated, rampVars>>

(* _tray_callback(func): the wrapper the tray thread runs for a menu item  *)
(* does root.after(0, func) and nothing else.                              *)
tray_callback(item) ==
    /\ pc = "mainloop"
    /\ icon = "running"
    /\ after0(item)
    /\ nOps' = nOps + 1
    /\ UNCHANGED <<pc, exc, startVars, hw, lastWrite, lastWriteOk, driverCallers, faults, uiVars,
                   cfgVars, status, icon, visible, pass, quitFlag, applyVars, applyHist,
                   restoreHist, rampVars>>

----------------------------------------------------------------------------
(* Timers *)

(* A turn of the main loop finds due timers: all of them form the pass *)
TimerPass ==
    /\ Idle
    /\ queue # <<>>
    /\ pass' = Len(queue)
    /\ UNCHANGED <<pc, exc, startVars, hw, lastWrite, lastWriteOk, driverCallers, faults, uiVars,
                   cfgVars, status, icon, visible, queue, quitFlag, applyVars, applyHist,
                   restoreHist, nOps, rampVars>>

(* The next timer of the pass is f *)
Due(f) ==
    /\ pc = "mainloop"
    /\ pass > 0
    /\ applying = "none"
    /\ Head(queue) = f

(* The timer of a tray item "Load Configuration" or "Reset": the function  *)
(* schedules its inner function.                                           *)
RunScheduler(f, inner) ==
    /\ Due(f)
    /\ queue' = Append(Tail(queue), inner)
    /\ pass' = pass - 1
    /\ UNCHANGED <<pc, exc, startVars, hw, lastWrite, lastWriteOk, driverCallers, faults, uiVars,
                   cfgVars, status, icon, visible, quitFlag, applyVars, applyHist,
                   restoreHist, nOps, rampVars>>

(* show_window *)
show_window ==
    /\ Due("show_window")
    /\ visible' = TRUE
    /\ queue' = Tail(queue)
    /\ pass' = pass - 1
    /\ UNCHANGED <<pc, exc, startVars, hw, lastWrite, lastWriteOk, driverCallers, faults, uiVars,
                   cfgVars, status, icon, quitFlag, applyVars, applyHist, restoreHist,
                   nOps, rampVars>>

(* A _load that reads config.json again *)
RunLoadFromFile ==
    /\ Due("_load")
    /\ SetVars(load_config)
    /\ BeginApply("_load")
    /\ queue' = Tail(queue)
    /\ pass' = pass - 1
    /\ UNCHANGED <<pc, exc, startVars, cfgVars, status, icon, visible, quitFlag,
                   applyHist, restoreHist, nOps, rampVars>>

(* _load of load_from_config: the DoubleVars take self.config, then        *)
(* update_gamma.                                                           *)
RunLoad ==
    /\ Due("_load")
    /\ SetVars(config)
    /\ BeginApply("_load")
    /\ queue' = Tail(queue)
    /\ pass' = pass - 1
    /\ UNCHANGED <<pc, exc, startVars, cfgVars, status, icon, visible, quitFlag,
                   applyHist, restoreHist, nOps, rampVars>>

(* _reset of reset: the DoubleVars take 1.0, 0.0, 1.0, then update_gamma *)
RunReset ==
    /\ Due("_reset")
    /\ SetVars(DefaultConfig)
    /\ BeginApply("_reset")
    /\ queue' = Tail(queue)
    /\ pass' = pass - 1
    /\ UNCHANGED <<pc, exc, startVars, cfgVars, status, icon, visible, quitFlag,
                   applyHist, restoreHist, nOps, rampVars>>

(* quit_app, one step per statement.  While the callback runs, the head   *)
(* of the queue names the statement it has come to: "quit_app" (line 183), *)
(* "quit_restore" (184), "quit_stop" (185-186), "quit_leave" (187).        *)
QuitSteps == {"quit_app", "quit_restore", "quit_stop", "quit_leave"}

(* The callback goes on to its statement next *)
QuitGoto(next) ==
    /\ queue' = <<next>> \o Tail(queue)
    /\ UNCHANGED <<pass, quitFlag>>

(* A quit_app that does not save *)
quit_app_nosave(saved) ==
    /\ Due("quit_app")
    /\ QuitGoto("quit_restore")
    /\ UNCHANGED <<pc, exc, startVars, hw, lastWrite, lastWriteOk, driverCallers, faults, uiVars,
                   cfgVars, status, icon, visible, applyVars, applyHist, restoreHist, nOps, rampVars>>

(* gui.py 183: self.save_to_config() *)
quit_app_save(saved) ==
    /\ Due("quit_app")
    /\ save_to_config(saved)
    /\ QuitGoto("quit_restore")
    /\ UNCHANGED <<pc, exc, startVars, hw, lastWrite, lastWriteOk, driverCallers, faults, uiVars,
                   icon, visible, applyVars, applyHist, restoreHist, nOps, rampVars>>

(* gui.py 184: self._restore_gamma() *)
quit_app_restore(written) ==
    /\ Due("quit_restore")
    /\ restore_gamma(written, "main")
    /\ QuitGoto("quit_stop")
    /\ UNCHANGED <<pc, exc, startVars, uiVars, cfgVars, status, icon, visible, applyVars,
                   applyHist, errPropagated, nOps, rampVars>>

(* gui.py 185-186: self.icon.stop() *)
quit_app_stop ==
    /\ Due("quit_stop")
    /\ icon' = "stopped"
    /\ QuitGoto("quit_leave")
    /\ UNCHANGED <<pc, exc, startVars, hw, lastWrite, lastWriteOk, driverCallers, faults, uiVars,
                   cfgVars, status, visible, applyVars, applyHist, restoreHist, nOps, rampVars>>

(* gui.py 187: self.root.quit(); the callback is over *)
quit_app_quit ==
    /\ Due("quit_leave")
    /\ quitFlag' = TRUE
    /\ queue' = Tail(queue)
    /\ pass' = pass - 1
    /\ UNCHANGED <<pc, exc, startVars, hw, lastWrite, lastWriteOk, driverCallers, faults, uiVars,
                   cfgVars, status, icon, visible, applyVars, applyHist, restoreHist, nOps, rampVars>>

----------------------------------------------------------------------------
(* The ways out *)

(* signal_handler of _setup_signal_handlers (SIGINT, SIGTERM): it runs in  *)
(* the main thread between two bytecodes: _restore_gamma(), sys.exit(0).   *)
(* In __init__ the SystemExit ends the program (the atexit handlers        *)
(* follow).  In the main loop outside a timer pass it ends the handler     *)
(* that is inside an apply, if any, and the loop.  In a timer pass the     *)
(* Python code that next runs is a callback of the pass: the SystemExit    *)
(* ends the callback that is inside an apply or inside quit_app, or else   *)
(* the next callback as it starts; the rest of the pass runs before the    *)
(* main loop re-raises it.                                                 *)
signal_handler(outcome) ==
    /\ pc \in {"constructed", "init_update", "tray", "mainloop"}
    /\ exc = "none"
    /\ restore_gamma(outcome, "main")
    /\ exc' = "SystemExit"
    /\ applying' = "none"
    /\ pendingTable' = NoRamp
    /\ pc' = IF pc = "mainloop"
               THEN (IF pass > 0 THEN "mainloop" ELSE "finally")
               ELSE "atexit_gui"
    /\ IF pc = "mainloop" /\ pass > 0 /\ applying = "none"
         THEN queue' = Tail(queue) /\ pass' = pass - 1
         ELSE UNCHANGED <<queue, pass>>
    /\ UNCHANGED <<startVars, uiVars, cfgVars, status, icon, visible, quitFlag,
                   applyHist, errPropagated, nOps, rampVars>>

(* root.mainloop() raises an exception (run, gui.py 287-288) *)
MainloopRaise ==
    /\ Idle
    /\ exc' = "Exception"
    /\ pc' = "except"
    /\ UNCHANGED <<startVars, hw, lastWrite, lastWriteOk, driverCallers, faults, uiVars, cfgVars,
                   status, icon, visible, loopVars, applyVars, applyHist, restoreHist,
                   nOps, rampVars>>

(* root.mainloop() is over: after root.quit() it returns, after a          *)
(* SystemExit in a callback it raises it; "except Exception" does not      *)
(* catch SystemExit.                                                       *)
MainloopExit ==
    /\ pc = "mainloop"
    /\ pass = 0
    /\ applying = "none"
    /\ quitFlag \/ exc # "none"
    /\ pc' = "finally"
    /\ UNCHANGED <<exc, startVars, hw, lastWrite, lastWriteOk, driverCallers, faults, uiVars,
                   cfgVars, status, icon, visible, loopVars, applyVars, applyHist,
                   restoreHist, nOps, rampVars>>

(* A restore step of the main thread at position at, going on to next *)
RestoreStep(at, next, outcome) ==
    /\ pc = at
    /\ restore_gamma(outcome, "main")
    /\ pc' = next
    /\ UNCHANGED <<exc, startVars, uiVars, cfgVars, status, icon, visible, loopVars,
                   applyVars, applyHist, errPropagated, nOps, rampVars>>

(* run, gui.py 288-291: except Exception: self._restore_gamma(); raise *)
ExceptBranch(outcome) == RestoreStep("except", "finally", outcome)

(* run, gui.py 292-294: finally: self._restore_gamma().  An exception in   *)
(* flight then reaches sys.excepthook; a SystemExit or a normal return     *)
(* goes on to the atexit handlers.                                         *)
FinallyBranch(outcome) ==
    RestoreStep("finally", IF exc = "Exception" THEN "excepthook" ELSE "atexit_gui",
                outcome)

(* _crash_handler (sys.excepthook): _restore_gamma(), then the original    *)
(* hook prints the error.                                                  *)
crash_handler(outcome) == RestoreStep("excepthook", "atexit_gui", outcome)

(* _atexit_restore, registered last and so run first *)
atexit_restore(outcome) == RestoreStep("atexit_gui", "atexit_backup", outcome)

(* restore() of backup_and_restore, registered first and so run last *)
AtexitBackup(outcome) ==
    /\ pc = "atexit_backup"
    /\ backup_restore(outcome)
    /\ pc' = "exited"
    /\ UNCHANGED <<exc, startVars, uiVars, cfgVars, status, icon, visible, loopVars,
                   applyVars, applyHist, nOps, rampVars>>

----------------------------------------------------------------------------
(* The lifecycle *)

RampIdle ==
    /\ params = <<10, 0, 10>>
    /\ idx = 0
    /\ val_16bit = 0
    /\ red = <<>>
    /\ green = <<>>
    /\ blue = <<>>

(* The state before __init__, but for the position of the main thread,   *)
(* config.json and the table computation                                   *)
Fresh ==
    /\ exc = "none"
    /\ original_ramp = NoRamp
    /\ hw = HwRamp
    /\ gamma_var = 10
    /\ brightness_var = 0
    /\ contrast_var = 10
    /\ config = DefaultConfig
    /\ status = "absent"
    /\ icon = "absent"
    /\ visible = FALSE
    /\ queue = <<>>
    /\ pass = 0
    /\ quitFlag = FALSE
    /\ applying = "none"
    /\ pendingTable = NoRamp
    /\ applyRet = "none"
    /\ notice = "none"
    /\ captured = NoRamp
    /\ readFailed = FALSE
    /\ lastWrite = NoRamp
    /\ lastWriteOk = FALSE
    /\ tableWritten = FALSE
    /\ restoreCalls = 0
    /\ restoreWrites = 0
    /\ tableAfterRestore = FALSE
    /\ driverCallers = {}
    /\ faults = 0
    /\ errPropagated = FALSE
    /\ applyFailed = FALSE
    /\ appliedAfterFail = FALSE
    /\ nOps = 0

Init ==
    /\ Fresh
    /\ pc = "start"
    /\ file \in FileContents
    /\ RampIdle

(* The run has user events left *)
Budget == nOps < MaxOps

Next ==
    \/ \E o \in ReadOutcomes : Construct(o)
    \/ LoadConfigStep
    \/ InitUpdate
    \/ \E o \in WriteOutcomes : ApplyWrite(o)
    \/ SetupTrayAndRun
    \/ Budget /\ \E which \in SliderNames : \E v \in SliderPicks(which) : SliderMove(which, v)
    \/ Budget /\ \E which \in SliderNames : adjust_value(which, AdjustPick(which))
    \/ Budget /\ ResetButton
    \/ Budget /\ LoadButton
    \/ Budget /\ \E o \in SaveOutcomes : SaveButton(o)
    \/ Budget /\ on_closing
    \/ Budget /\ \E item \in TrayItems : tray_callback(item)
    \/ TimerPass
    \/ RunScheduler("load_from_config", "_load")
    \/ RunScheduler("reset", "_reset")
    \/ show_window
    \/ RunLoad
    \/ RunReset
    \/ \E s \in SaveOutcomes : quit_app_save(s)
    \/ \E w \in WriteOutcomes : quit_app_restore(w)
    \/ quit_app_stop
    \/ quit_app_quit
    \/ \E o \in WriteOutcomes : signal_handler(o)
    \/ MainloopRaise
    \/ MainloopExit
    \/ \E o \in WriteOutcomes : ExceptBranch(o)
    \/ \E o \in WriteOutcomes : FinallyBranch(o)
    \/ \E o \in WriteOutcomes : crash_handler(o)
    \/ \E o \in WriteOutcomes : atexit_restore(o)
    \/ \E o \in WriteOutcomes : AtexitBackup(o)

Spec == Init /\ [][Next]_vars

----------------------------------------------------------------------------
(* The window in use: startup, then the widgets of the window and the      *)
(* timers they create; no tray item, no signal, no exit.                   *)

BudgetUi == nOps < MaxUiOps

InitUi ==
    /\ Fresh
    /\ pc = "start"
    /\ file \in FileContentsUi
    /\ RampIdle

NextUi ==
    \/ \E o \in ReadOutcomes : Construct(o)
    \/ LoadConfigStep
    \/ InitUpdate
    \/ \E o \in WriteOutcomes : ApplyWrite(o)
    \/ SetupTrayAndRun
    \/ BudgetUi /\ \E which \in SliderNames : \E v \in SliderPicks(which) : SliderMove(which, v)
    \/ BudgetUi /\ \E which \in SliderNames : \E d \in {1, -1} : adjust_value(which, d)
    \/ BudgetUi /\ ResetButton
    \/ BudgetUi /\ LoadButton
    \/ BudgetUi /\ \E o \in SaveOutcomes : SaveButton(o)
    \/ TimerPass
    \/ RunLoad
    \/ RunReset

SpecUi == InitUi /\ [][NextUi]_vars

----------------------------------------------------------------------------
(* The table computation on its own: one call of                           *)
(* set_gamma_ramp_all_screens(gamma, brightness, contrast), one loop       *)
(* iteration per step, then the driver write.                              *)

(* The body of the loop with line 42 (the second clamp) left out *)
LoopValueUnclamped(i) ==
    IntOf(FinalValUnclamped(i, params[1], params[2], params[3]))

(* screengamma.py 35-43: val_16bit of iteration i *)
LoopValue(i) == Val16(i, params[1], params[2], params[3])

(* screengamma.py 34-44: one iteration; line 44 stores the same USHORT in  *)
(* the three channels.                                                     *)
LoopBody ==
    /\ pc = "ramp_loop"
    /\ idx < GAMMA_RAMP_SIZE
    /\ val_16bit' = LoopValue(idx)
    /\ red' = [red EXCEPT ![idx] = USHORT(LoopValue(idx))]
    /\ green' = [green EXCEPT ![idx] = USHORT(LoopValue(idx))]
    /\ blue' = [blue EXCEPT ![idx] = USHORT(LoopValue(idx))]
    /\ idx' = idx + 1
    /\ UNCHANGED <<lifeVars, params>>

(* screengamma.py 45: return set_gamma_ramp(original) *)
RampWrite(outcome) ==
    /\ pc = "ramp_loop"
    /\ idx = GAMMA_RAMP_SIZE
    /\ set_gamma_ramp(Table(params[1], params[2], params[3]), outcome, "main")
    /\ tableWritten' = TRUE
    /\ applyRet' = (CASE outcome = "ok" -> "true"
                      [] outcome = "fail" -> "false"
                      [] outcome = "raise" -> "raised")
    /\ pc' = "ramp_done"
    /\ UNCHANGED <<exc, startVars, uiVars, cfgVars, status, icon, visible, loopVars,
                   applyVars, tableAfterRestore, applyFailed, appliedAfterFail,
                   restoreHist, nOps, rampVars>>

InitRamp ==
    /\ Fresh
    /\ pc = "ramp_loop"
    /\ file = MissingFile
    /\ params \in GammaInputs \X BrightnessInputs \X ContrastInputs
    /\ idx = 0
    /\ val_16bit = 0
    /\ red = LinearRamp
    /\ green = LinearRamp
    /\ blue = LinearRamp

NextRamp ==
    \/ LoopBody
    \/ \E o \in WriteOutcomes : RampWrite(o)

SpecRamp == InitRamp /\ [][NextRamp]_vars

----------------------------------------------------------------------------
(* Properties of the lifecycle (Spec) *)

(* The session has captured a ramp: it is, or was, Active *)
Active == captured # NoRamp

(* C1: when the process has ended after an Active session, by Quit, by an  *)
(* exception out of the main loop, by a signal or by the main loop         *)
(* returning, the last ramp that was passed to the driver is the ramp      *)
(* captured at startup (and it is what the display has when that write     *)
(* succeeded), whatever was applied before.                                *)
C1_RestoreGuarantee ==
    (pc = "exited" /\ Active) =>
        /\ restoreWrites >= 1
        /\ lastWrite = captured
        /\ lastWriteOk => hw = captured

C1_Witness ==
    /\ pc = "exited"
    /\ quitFlag
    /\ tableAfterRestore
    /\ captured = HwRamp
    /\ hw = HwRamp

C3_CaptureBeforeApply ==
    (tableWritten \/ applying # "none") =>
        /\ captured # NoRamp
        /\ original_ramp # NoRamp

C3_Witness == tableWritten /\ captured = HwRamp /\ pc = "tray"

(* C4 as stated: once a restore has written the original ramp, no computed *)
(* table is passed to the driver.                                          *)
C4_RestoredIsTerminal == ~tableAfterRestore

(* C5: the stored original ramp is the ramp read at startup, after any     *)
(* apply, reset, load, save and restore; what apply passes to the driver   *)
(* is a computed table, never the stored ramp.                             *)
C5_OriginalUnchanged ==
    /\ Active => original_ramp = captured
    /\ ~Active => original_ramp = NoRamp
    /\ pendingTable.kind \in {"none", "table"}

C5_Witness ==
    /\ tableWritten
    /\ restoreWrites > 0
    /\ file = JsonFile(Params(gamma_var, brightness_var, contrast_var))
    /\ gamma_var # 10
    /\ status = "Configuration loaded"
    /\ original_ramp = HwRamp

(* C6 as stated: a driver failure while reading the ramp in __init__ ends  *)
(* startup; the session does not become Active and no fallback table is   *)
(* kept as the original ramp.                                              *)
C6_ReadFailureIsFatal ==
    readFailed => (original_ramp = NoRamp /\ pc \in {"start", "exited"})

(* C7: a failed driver write inside apply is returned to the caller as a   *)
(* status and raises nothing, the main loop (or __init__) goes on, the     *)
(* display is unchanged; and every apply, also one after such a failure,   *)
(* computes the table of the current values and passes it to the driver.   *)
C7_Step ==
    /\ (applying = "none" /\ applying' # "none") =>
           pendingTable' = Table(gamma_var', brightness_var', contrast_var')
    /\ (applying # "none" /\ applying' = "none" /\ restoreCalls' = restoreCalls) =>
           /\ lastWrite' = pendingTable
           /\ pendingTable.kind = "table"
           /\ exc' = exc
           /\ pc' \in {"tray", "mainloop"}
           /\ (faults' > faults /\ applyRet' # "raised") =>
                  (applyRet' = "false" /\ hw' = hw /\ ~lastWriteOk')

C7_ApplyFailureNotFatal == [][C7_Step]_vars

C7_Witness ==
    /\ appliedAfterFail
    /\ pc = "mainloop"
    /\ applyRet = "true"
    /\ lastWrite.kind = "table"
    /\ hw = lastWrite

(* C8 as stated: no restore lets a driver error out to its caller *)
C8_RestoreSwallows == ~errPropagated

(* C9: only the main (UI) thread calls the driver, so no two driver calls  *)
(* overlap; what a tray menu item does (quit_app, show_window, the         *)
(* scheduling of _load and _reset) happens in a timer pass of the main     *)
(* loop, never in the step of the tray thread that enqueued it.            *)
C9_Step ==
    /\ (quitFlag' # quitFlag \/ (icon' = "stopped" /\ icon = "running")) =>
           (pass > 0 /\ Head(queue) \in QuitSteps)
    /\ (queue' # queue /\ Len(queue') = Len(queue) + 1) =>
           (UNCHANGED <<hw, lastWrite, restoreCalls, restoreWrites, tableWritten,
                        uiVars, config, file, visible, icon, quitFlag, pass>>)

C9_DriverOnUiThread ==
    /\ [](driverCallers \subseteq {"main"})
    /\ [][C9_Step]_vars

C9_Witness ==
    /\ quitFlag
    /\ restoreWrites > 0
    /\ tableWritten
    /\ driverCallers = {"main"}

(* C13 as stated: when config.json is missing, unreadable or not a record  *)
(* of the three parameters, the configuration and the DoubleVars are the   *)
(* defaults, startup goes on (the crash hook is not reached before the     *)
(* first table was applied) and the first table applied is the table of    *)
(* the defaults.  Before the first user event config.json is what it was   *)
(* at the start.                                                           *)
C13_LoadFailureFallsBack ==
    (file.state # "json" /\ nOps = 0 /\ pc \notin {"start", "constructed"} /\ Active) =>
        /\ config = DefaultConfig
        /\ <<gamma_var, brightness_var, contrast_var>> = <<10, 0, 10>>
        /\ pc = "excepthook" => tableWritten
        /\ lastWrite.kind = "table" => lastWrite = Table(10, 0, 10)

(* The parameter triples within the slider ranges *)
InRange(g, b, c) ==
    /\ g \in GammaFrom..GammaTo
    /\ b \in BrightnessFrom..BrightnessTo
    /\ c \in ContrastFrom..ContrastTo

(* C19: the DoubleVars, the table an apply has computed and every table    *)
(* passed to the driver are of parameters within the slider ranges, also   *)
(* after loading a configuration whose values are outside them; a + or -   *)
(* step at the end of a range leaves the value there.                      *)
C19_Step ==
    \A which \in SliderNames :
        /\ (applying' = "adjust" /\ applying = "none" /\ VarOf(which) = SliderTo(which))
               => VarOf(which)' \in {SliderTo(which), SliderTo(which) - 1}
        /\ (applying' = "adjust" /\ applying = "none" /\ VarOf(which) = SliderFrom(which))
               => VarOf(which)' \in {SliderFrom(which), SliderFrom(which) + 1}

C19_ClampedBeforeApply ==
    /\ [](/\ InRange(gamma_var, brightness_var, contrast_var)
          /\ pendingTable.kind = "table" =>
                 InRange(pendingTable.gamma, pendingTable.brightness, pendingTable.contrast)
          /\ lastWrite.kind = "table" =>
                 InRange(lastWrite.gamma, lastWrite.brightness, lastWrite.contrast))
    /\ [][C19_Step]_vars

C19_Witness ==
    /\ config = Params(50, 0, 10)
    /\ applying = "adjust"
    /\ lastWrite = Table(GammaTo, BrightnessFrom, 10)
    /\ pendingTable = Table(GammaTo, BrightnessFrom, 10)

(* The current parameters as a configuration record *)
Current == Params(gamma_var, brightness_var, contrast_var)

(* The step is the Save button *)
SaveStep == nOps' = nOps + 1 /\ UNCHANGED <<queue, visible, applying>>

(* The step is the statement of quit_app at from, going on to next *)
QuitStep(from, next) ==
    /\ pass > 0
    /\ queue # <<>>
    /\ Head(queue) = from
    /\ queue' = <<next>> \o Tail(queue)

(* C14: a configuration save, by the Save button or as the first statement *)
(* of quit_app, calls no driver function and leaves the display, the       *)
(* current parameters, the position of the main thread and the session as  *)
(* they are; self.config takes the current parameters; either the file is  *)
(* written or an error box is shown, and nothing is raised.                *)
C14_Step ==
    (SaveStep \/ QuitStep("quit_app", "quit_restore")) =>
        /\ UNCHANGED <<hw, lastWrite, lastWriteOk, driverCallers, faults, tableWritten>>
        /\ UNCHANGED <<restoreCalls, restoreWrites, original_ramp, applyVars>>
        /\ UNCHANGED <<uiVars, pc, exc, icon, quitFlag, pass>>
        /\ config' = Current
        /\ status' = "Configuration saved"
        /\ file' = JsonFile(config') \/ (notice' = "save_error" /\ file' \in {file, CorruptFile})

C14_SaveLeavesDisplay == [][C14_Step]_vars

C14_Witness ==
    /\ pc = "mainloop"
    /\ notice = "save_error"
    /\ status = "Configuration saved"
    /\ config = Params(22, 0, 10)
    /\ file = MissingFile
    /\ hw = Table(22, 0, 10)
    /\ restoreCalls = 0
    /\ exc = "none"

(* C16: closing the window only hides it: the step calls no driver         *)
(* function, restores nothing, and leaves the main loop, the tray, the     *)
(* timers, the parameters and the configuration as they are.  The main     *)
(* loop is left, and a restore is made, only after quit_app, a signal or   *)
(* an exception.                                                           *)
C16_Step ==
    /\ (visible /\ ~visible') =>
           /\ UNCHANGED <<hw, lastWrite, lastWriteOk, driverCallers, faults, tableWritten>>
           /\ UNCHANGED <<restoreCalls, restoreWrites, original_ramp, applyVars>>
           /\ UNCHANGED <<uiVars, cfgVars, status, pc, exc, icon, loopVars>>
    /\ (pc = "mainloop" /\ pc' # "mainloop") => (quitFlag \/ exc' # "none")
    /\ (restoreCalls' # restoreCalls) =>
           \/ QuitStep("quit_restore", "quit_stop")
           \/ exc = "none" /\ exc' = "SystemExit"
           \/ pc \in {"except", "finally", "excepthook", "atexit_gui", "atexit_backup"}

C16_CloseOnlyHides == [][C16_Step]_vars

C16_Witness ==
    /\ ~visible
    /\ pc = "mainloop"
    /\ nOps = 2
    /\ hw = Table(22, 0, 10)
    /\ lastWrite = hw
    /\ restoreCalls = 0
    /\ icon = "running"
    /\ ~quitFlag
    /\ exc = "none"

(* C17: quit_app saves, restores, stops the tray and leaves the main loop, *)
(* in this order: the save stores the current parameters as self.config    *)
(* (and in config.json, unless the write fails) before any driver call of  *)
(* quit_app; the restore writes the original ramp while the tray runs and  *)
(* the loop goes on; the tray is stopped after the restore; the loop is    *)
(* told to end after the tray was stopped.                                 *)
C17_Step ==
    /\ QuitStep("quit_app", "quit_restore") =>
           /\ config' = Current
           /\ file' = JsonFile(config') \/ notice' = "save_error"
           /\ UNCHANGED <<hw, lastWrite, restoreCalls, restoreWrites, icon, quitFlag>>
    /\ QuitStep("quit_restore", "quit_stop") =>
           /\ config = Current
           /\ lastWrite' = original_ramp
           /\ restoreWrites' = restoreWrites + 1
           /\ UNCHANGED <<cfgVars, icon, quitFlag>>
    /\ (icon = "running" /\ icon' = "stopped") =>
           /\ QuitStep("quit_stop", "quit_leave")
           /\ lastWrite = original_ramp
           /\ UNCHANGED <<cfgVars, lastWrite, restoreWrites, quitFlag>>
    /\ (~quitFlag /\ quitFlag') =>
           /\ pass > 0 /\ queue # <<>> /\ Head(queue) = "quit_leave"
           /\ icon = "stopped"
           /\ restoreWrites > 0
           /\ UNCHANGED <<cfgVars, lastWrite, restoreWrites, icon>>

C17_QuitOrder == [][C17_Step]_vars

C17_Witness ==
    /\ quitFlag
    /\ pc = "mainloop"
    /\ icon = "stopped"
    /\ nOps = 2
    /\ config = Params(10, -10, 10)
    /\ file = JsonFile(Params(10, -10, 10))
    /\ notice = "none"
    /\ lastWrite = original_ramp
    /\ hw = HwRamp

----------------------------------------------------------------------------
(* Properties of the table computation (SpecRamp) *)

(* C10: for every parameter triple, out of range or not, the value of each *)
(* iteration is in 0..65535 (so the USHORT keeps it as it is) and the      *)
(* three channels hold it at that index.                                   *)
C10_TableInRange ==
    /\ val_16bit \in 0..Full
    /\ \A j \in 0..(idx - 1) :
          /\ red[j] \in 0..Full
          /\ red[j] = green[j]
          /\ green[j] = blue[j]
    /\ idx > 0 => red[idx - 1] = val_16bit

C10_Witness ==
    /\ pc = "ramp_done"
    /\ params = <<0, -20, -10>>
    /\ red[0] = Full
    /\ red[GAMMA_RAMP_SIZE - 1] < Full

----------------------------------------------------------------------------
(* Properties of the window in use (SpecUi) *)

(* C18: Save stores the current parameters in self.config; slider, + / -,  *)
(* Reset and Load leave self.config as it is; Load sets the DoubleVars to  *)
(* self.config, computes the table of these values and passes it to the    *)
(* driver, whatever config.json holds.                                     *)
C18_Step ==
    /\ SaveStep => (config' = Current /\ UNCHANGED uiVars)
    /\ (config' # config) => (SaveStep \/ pc = "constructed")
    /\ (applying = "none" /\ applying' = "_load" /\
            InRange(config.gamma, config.brightness, config.contrast)) =>
           /\ Params(gamma_var', brightness_var', contrast_var') = config
           /\ pendingTable' = Table(config.gamma, config.brightness, config.contrast)
    /\ (applying = "_load" /\ applying' = "none") =>
           /\ lastWrite' = pendingTable
           /\ lastWriteOk' => hw' = pendingTable
           /\ UNCHANGED <<uiVars, cfgVars>>

C18_SaveLoadRoundTrip == [][C18_Step]_vars

C18_Witness ==
    /\ applying = "_load"
    /\ nOps = 3
    /\ notice = "save_error"
    /\ file = JsonFile(Params(50, 0, 10))
    /\ config = Params(GammaTo, 0, 10)
    /\ lastWrite = Table(10, 0, 10)
    /\ pendingTable = Table(GammaTo, 0, 10)

----------------------------------------------------------------------------
(* Properties of the table computation (SpecRamp), continued *)

(* |a - b| *)
Dist(a, b) == IF a >= b THEN a - b ELSE b - a

(* C11: with gamma 1.0, brightness 0.0, contrast 1.0 the table is the      *)
(* linear ramp: entry i is 257 * i = round(i / 255 * 65535), to within one *)
(* unit of the 16-bit value, in the three channels.                        *)
C11_DefaultIsLinear ==
    params = <<10, 0, 10>> =>
        \A j \in 0..(idx - 1) :
            /\ Dist(red[j], 257 * j) <= 1
            /\ Dist(green[j], 257 * j) <= 1
            /\ Dist(blue[j], 257 * j) <= 1

C11_Witness ==
    /\ pc = "ramp_done"
    /\ params = <<10, 0, 10>>
    /\ red[0] = 0
    /\ Dist(red[128], 32896) <= 1
    /\ red[GAMMA_RAMP_SIZE - 1] = Full

(* C12: when gamma >= 0.1 and contrast > 0 the entries written so far are  *)
(* in non-decreasing order of the index.                                   *)
C12_Monotone ==
    (params[1] >= 1 /\ params[3] > 0) =>
        \A j \in 0..(idx - 2) : red[j] <= red[j + 1]

C12_Witness ==
    /\ pc = "ramp_done"
    /\ params = <<1, -3, 15>>
    /\ red[0] = 0
    /\ red[1] = 0
    /\ red[230] > 0
    /\ red[230] < red[231]
    /\ red[GAMMA_RAMP_SIZE - 2] = Full
    /\ red[GAMMA_RAMP_SIZE - 1] = Full

(* round(x) of x / 1000, x >= 0: the nearest whole number *)
RoundOf(x) == (x + 500) \div 1000

(* C15 as stated: the value written at index i is round(final * 65535),    *)
(* final being the clamped result of the brightness shift and the contrast *)
(* step on the gamma-corrected intensity.                                  *)
C15_RoundToNearest ==
    \A j \in 0..(idx - 1) :
        red[j] = RoundOf(FinalVal(j, params[1], params[2], params[3]))

====
